---- MODULE Spec2Model ----
(***************************************************************************)
(* The notification screen of app/userapp/notificationpage.tsx: one React  *)
(* component instance (its useState cells, its ref and its effects), the   *)
(* asynchronous calls it has in flight, and the remote collection of       *)
(* notification documents it queries, updates and deletes.                 *)
(*                                                                         *)
(* JavaScript is single-threaded: every handler runs to its next await     *)
(* without interleaving, so each action below is one such run.  A handler  *)
(* created by a render reads that render's values of the state cells (a    *)
(* closure), which is why calls in flight carry the values they captured.  *)
(***************************************************************************)
EXTENDS Integers, Sequences, FiniteSets, Bags

\* Bounds of the model.
MaxDocs == 2        \* documents ever created in the remote collection
MaxGestures == 2    \* gestures of the user (pull, dismiss, delete, cancel, confirm)
MaxInFlight == 2    \* fetch, mark-as-read and delete-all handlers awaiting at once

Emails == {"a@x", "b@x"}
PermissionStatus == {"granted", "denied", "undetermined"}
Null == "null"

VARIABLES
  store,          \* remote collection, in creation order: Seq of [id, userEmail, isRead]
  created,        \* number of documents ever created (ids are store-assigned, never reused)
  mounted,        \* "init" (rendered, effects not yet run) | "mounted" | "unmounted"
  notifications,  \* useState: the displayed list (documents as fetched)
  refreshing,     \* useState: pull-to-refresh flag
  previousCount,  \* useState: unread count of the last fetch
  userEmail,      \* useState: '' until the user lookup resolves
  expoPushToken,  \* useState: Null or the token
  soundRef,       \* useRef: Null or "sound"
  soundLoad,      \* Audio.Sound.createAsync: "idle" | "loading" | "loaded" | "failed"
  unloads,        \* number of unloadAsync calls made on the loaded sound
  listener,       \* notification-received subscription: "none" | "active" | "removed"
  reg,            \* registerForPushNotificationsAsync: its position and locals, and
                  \* Device.isDevice
  lookup,         \* account.get(): "idle" | "pending" | "ok" | "failed"
  fetches,        \* bag of fetchNotifications calls awaiting listDocuments
  marks,          \* bag of markAsRead calls awaiting updateDocument
  dialog,         \* the delete-all confirmation alert and what its onPress captured
  batches,        \* bag of confirmed delete-all handlers awaiting Promise.all
  alert,          \* Alert.alert shown by the most recent handler run ("none" if none)
  cue,            \* playNotificationSound outcome of the most recent handler run
  haptic,         \* direct Haptics call made by the most recent handler run
  gestures        \* number of gestures the user has made

vars == <<store, created, mounted, notifications, refreshing, previousCount, userEmail,
          expoPushToken, soundRef, soundLoad, unloads, listener, reg, lookup, fetches,
          marks, dialog, batches, alert, cue, haptic, gestures>>

remoteVars == <<store, created>>
stateVars == <<notifications, refreshing, previousCount, userEmail, expoPushToken>>
soundVars == <<soundRef, soundLoad, unloads>>
outVars == <<alert, cue, haptic>>

----------------------------------------------------------------------------
\* Helpers on sequences and documents.

Range(s) == {s[k] : k \in 1..Len(s)}

Ids(docs) == {d.id : d \in Range(docs)}

RECURSIVE Reverse(_)
Reverse(s) == IF s = <<>> THEN <<>> ELSE Append(Reverse(Tail(s)), Head(s))

One(x) == SetToBag({x})

NoDialog == [open |-> FALSE, items |-> <<>>, email |-> "", prev |-> 0]

\* databases.listDocuments(..., [Query.equal('userEmail', email), Query.orderDesc('createdAt')])
ListDocuments(st, email) ==
  Reverse(SelectSeq(st, LAMBDA d : d.userEmail = email))

\* Mutant of FilterUnread: the filter is left out.
FilterUnreadOmitted(docs) == docs

\* res.documents.filter(doc => !doc.isRead)
FilterUnread(docs) == SelectSeq(docs, LAMBDA d : ~d.isRead)

\* Mutant of UpdateDocument: the update writes isRead: false.
UpdateDocumentUnread(st, id) ==
  [k \in 1..Len(st) |-> IF st[k].id = id THEN [st[k] EXCEPT !.isRead = FALSE] ELSE st[k]]

\* databases.updateDocument(..., id, { isRead: true })
UpdateDocument(st, id) ==
  [k \in 1..Len(st) |-> IF st[k].id = id THEN [st[k] EXCEPT !.isRead = TRUE] ELSE st[k]]

\* databases.deleteDocument(..., id)
DeleteDocument(st, id) == SelectSeq(st, LAMBDA d : d.id # id)

\* setX(v) of a useState cell: a no-op once the component is unmounted
SetState(cur, v) == IF mounted = "mounted" THEN v ELSE cur

\* playNotificationSound: replayAsync on the loaded sound (it throws on an unloaded
\* sound, and may throw otherwise), then the success haptic; a throw is logged only.
PlayNotificationSound ==
  IF soundRef = Null THEN {"haptic"}
  ELSE IF unloads > 0 THEN {"error"}
  ELSE {"sound", "error"}

\* The user touches the screen once more.
Gesture == gestures < MaxGestures /\ gestures' = gestures + 1

\* Handlers suspended at an await of a store call.
InFlight == BagCardinality(fetches) + BagCardinality(marks) + BagCardinality(batches)

\* fetchNotifications(email) up to its await: the listDocuments request goes out.
\* prev is the previousCount of the render that created this fetchNotifications; after
\* and gone name the store call the calling handler awaited before it ("none", "mark",
\* "delete") and the documents that call marked read or deleted.
Request(email, prev, after, gone) ==
  [phase |-> "sent", email |-> email, prev |-> prev, after |-> after, gone |-> gone,
   documents |-> <<>>]

----------------------------------------------------------------------------
Init ==
  /\ store = <<>>
  /\ created = 0
  /\ mounted = "init"
  /\ notifications = <<>>
  /\ refreshing = FALSE
  /\ previousCount = 0
  /\ userEmail = ""
  /\ expoPushToken = Null
  /\ soundRef = Null
  /\ soundLoad = "idle"
  /\ unloads = 0
  /\ listener = "none"
  /\ reg \in {[pc |-> "idle", isDevice |-> v, finalStatus |-> "none", result |-> "none",
                tokenRequested |-> FALSE] : v \in BOOLEAN}
  /\ lookup = "idle"
  /\ fetches = EmptyBag
  /\ marks = EmptyBag
  /\ dialog = NoDialog
  /\ batches = EmptyBag
  /\ alert = "none"
  /\ cue = "none"
  /\ haptic = "none"
  /\ gestures = 0

----------------------------------------------------------------------------
\* The backend creates a notification document (the screen only polls the store).
Arrive(e, r) ==
  /\ created < MaxDocs
  /\ created' = created + 1
  /\ store' = Append(store, [id |-> created + 1, userEmail |-> e, isRead |-> r])
  /\ UNCHANGED gestures
  /\ UNCHANGED <<mounted, stateVars, soundVars, listener, reg, lookup, fetches, marks,
                 dialog, batches, outVars>>

\* The effects of the first render, in source order: loadSound(), the push registration
\* (which runs to its first await, or to its return when not on a device), the
\* notification listener, getUserAndFetch() up to account.get().
Mount ==
  /\ mounted = "init"
  /\ mounted' = "mounted"
  /\ soundLoad' = "loading"
  /\ IF reg.isDevice
       THEN /\ reg' = [reg EXCEPT !.pc = "getPermissions"]
            /\ alert' = "none"
       ELSE /\ reg' = [reg EXCEPT !.pc = "done", !.result = Null]
            /\ alert' = "Must use physical device for push notifications."
  /\ listener' = "active"
  /\ lookup' = "pending"
  /\ cue' = "none"
  /\ haptic' = "none"
  /\ UNCHANGED gestures
  /\ UNCHANGED <<remoteVars, stateVars, soundRef, unloads, fetches, marks, dialog, batches>>

\* The effect cleanups: unload the sound if the ref holds one, remove the subscription.
Unmount ==
  /\ mounted = "mounted"
  /\ mounted' = "unmounted"
  /\ unloads' = IF soundRef # Null THEN unloads + 1 ELSE unloads
  /\ listener' = "removed"
  /\ dialog' = dialog
  /\ alert' = "none"
  /\ cue' = "none"
  /\ haptic' = "none"
  /\ UNCHANGED gestures
  /\ UNCHANGED <<remoteVars, stateVars, soundRef, soundLoad, reg, lookup, fetches, marks,
                 batches>>

\* loadSound after its await: Audio.Sound.createAsync resolved.
LoadSoundDone ==
  /\ soundLoad = "loading"
  /\ soundLoad' = "loaded"
  /\ soundRef' = "sound"
  /\ alert' = "none" /\ cue' = "none" /\ haptic' = "none"
  /\ UNCHANGED gestures
  /\ UNCHANGED <<remoteVars, mounted, stateVars, unloads, listener, reg, lookup, fetches,
                 marks, dialog, batches>>

\* Audio.Sound.createAsync rejected: loadSound's promise is dropped, the ref stays null.
LoadSoundFail ==
  /\ soundLoad = "loading"
  /\ soundLoad' = "failed"
  /\ alert' = "none" /\ cue' = "none" /\ haptic' = "none"
  /\ UNCHANGED gestures
  /\ UNCHANGED <<remoteVars, mounted, stateVars, soundRef, unloads, listener, reg, lookup,
                 fetches, marks, dialog, batches>>

----------------------------------------------------------------------------
\* registerForPushNotificationsAsync, one action per await.

\* getPermissionsAsync resolved with existingStatus s.
RegGetPermissions(s) ==
  /\ reg.pc = "getPermissions"
  /\ IF s # "granted"
       THEN reg' = [reg EXCEPT !.pc = "requestPermissions", !.finalStatus = s]
       ELSE reg' = [reg EXCEPT !.pc = "getToken", !.finalStatus = s,
                               !.tokenRequested = TRUE]
  /\ alert' = "none" /\ cue' = "none" /\ haptic' = "none"
  /\ UNCHANGED gestures
  /\ UNCHANGED <<remoteVars, mounted, stateVars, soundVars, listener, lookup, fetches,
                 marks, dialog, batches>>

\* Mutant of RegRequestPermissions: the final status is not checked.
RegRequestPermissionsUnchecked(s) ==
  /\ reg.pc = "requestPermissions"
  /\ reg' = [reg EXCEPT !.pc = "getToken", !.finalStatus = s, !.tokenRequested = TRUE]
  /\ alert' = "none" /\ cue' = "none" /\ haptic' = "none"
  /\ UNCHANGED gestures
  /\ UNCHANGED <<remoteVars, mounted, stateVars, soundVars, listener, lookup, fetches,
                 marks, dialog, batches>>

\* requestPermissionsAsync resolved with status s.
RegRequestPermissions(s) ==
  /\ reg.pc = "requestPermissions"
  /\ IF s # "granted"
       THEN /\ reg' = [reg EXCEPT !.pc = "done", !.finalStatus = s, !.result = Null]
            /\ alert' = "Enable notifications in settings."
       ELSE /\ reg' = [reg EXCEPT !.pc = "getToken", !.finalStatus = s,
                                  !.tokenRequested = TRUE]
            /\ alert' = "none"
  /\ cue' = "none" /\ haptic' = "none"
  /\ UNCHANGED gestures
  /\ UNCHANGED <<remoteVars, mounted, stateVars, soundVars, listener, lookup, fetches,
                 marks, dialog, batches>>

\* getExpoPushTokenAsync resolved; the effect's then-callback stores the token.
RegGetToken ==
  /\ reg.pc = "getToken"
  /\ reg' = [reg EXCEPT !.pc = "done", !.result = "token"]
  /\ expoPushToken' = SetState(expoPushToken, "token")
  /\ alert' = "none" /\ cue' = "none" /\ haptic' = "none"
  /\ UNCHANGED gestures
  /\ UNCHANGED <<remoteVars, mounted, notifications, refreshing, previousCount, userEmail,
                 soundVars, listener, lookup, fetches, marks, dialog, batches>>

\* One of the awaited notification calls rejected: the function throws, and the
\* effect's promise has no catch.
RegReject ==
  /\ reg.pc \in {"getPermissions", "requestPermissions", "getToken"}
  /\ reg' = [reg EXCEPT !.pc = "rejected"]
  /\ alert' = "none" /\ cue' = "none" /\ haptic' = "none"
  /\ UNCHANGED gestures
  /\ UNCHANGED <<remoteVars, mounted, stateVars, soundVars, listener, lookup, fetches,
                 marks, dialog, batches>>

\* The listener of addNotificationReceivedListener: a push arrives in the foreground.
PushReceived ==
  /\ listener = "active"
  /\ cue' \in PlayNotificationSound
  /\ alert' = "none" /\ haptic' = "none"
  /\ UNCHANGED gestures
  /\ UNCHANGED <<remoteVars, mounted, stateVars, soundVars, listener, reg, lookup, fetches,
                 marks, dialog, batches>>

----------------------------------------------------------------------------
\* getUserAndFetch after its await.

\* account.get() resolved: setUserEmail, then the first render's fetchNotifications,
\* whose previousCount is the initial 0.
LookupOk(e) ==
  /\ lookup = "pending"
  /\ lookup' = "ok"
  /\ userEmail' = SetState(userEmail, e)
  /\ fetches' = fetches (+) One(Request(e, 0, "none", {}))
  /\ alert' = "none" /\ cue' = "none" /\ haptic' = "none"
  /\ UNCHANGED gestures
  /\ UNCHANGED <<remoteVars, mounted, notifications, refreshing, previousCount,
                 expoPushToken, soundVars, listener, reg, marks, dialog, batches>>

\* account.get() rejected.
LookupFail ==
  /\ lookup = "pending"
  /\ lookup' = "failed"
  /\ alert' = "Failed to get user data"
  /\ cue' = "none" /\ haptic' = "none"
  /\ UNCHANGED gestures
  /\ UNCHANGED <<remoteVars, mounted, stateVars, soundVars, listener, reg, fetches, marks,
                 dialog, batches>>

----------------------------------------------------------------------------
\* fetchNotifications.

\* What the store answers to the request f.
Served(f) ==
  [f EXCEPT !.phase = "served", !.documents = ListDocuments(store, f.email)]

\* The store answers the listDocuments request f.
FetchServe(f) ==
  /\ BagIn(f, fetches)
  /\ f.phase = "sent"
  /\ fetches' = (fetches (-) One(f)) (+) One(Served(f))
  /\ UNCHANGED gestures
  /\ UNCHANGED <<remoteVars, mounted, stateVars, soundVars, listener, reg, lookup, marks,
                 dialog, batches, outVars>>

\* The count the fetch f compares its result with (line 89).
Baseline(f) == f.prev

\* Mutant of NextCount: the baseline only ever grows.
NextCountHighWater(newNotifications) ==
  IF Len(newNotifications) > previousCount THEN Len(newNotifications) ELSE previousCount

\* What a fetch stores as the next baseline (line 93).
NextCount(newNotifications) == Len(newNotifications)

\* Mutant of FetchOk: a response is dropped while another request is in flight.
FetchOkUnlessSuperseded(f) ==
  /\ BagIn(f, fetches)
  /\ f.phase = "served"
  /\ LET newNotifications == FilterUnread(f.documents)
         superseded == BagCardinality(fetches) > 1
     IN /\ IF Len(newNotifications) > f.prev /\ ~superseded
             THEN cue' \in PlayNotificationSound
             ELSE cue' = "none"
        /\ notifications' = IF superseded THEN notifications
                            ELSE SetState(notifications, newNotifications)
        /\ previousCount' = IF superseded THEN previousCount
                            ELSE SetState(previousCount, Len(newNotifications))
  /\ refreshing' = SetState(refreshing, FALSE)
  /\ fetches' = fetches (-) One(f)
  /\ alert' = "none" /\ haptic' = "none"
  /\ UNCHANGED gestures
  /\ UNCHANGED <<remoteVars, mounted, userEmail, expoPushToken, soundVars, listener, reg,
                 lookup, marks, dialog, batches>>

\* The response of f reaches the client: lines 88-93, then finally.
FetchOk(f) ==
  /\ BagIn(f, fetches)
  /\ f.phase = "served"
  /\ LET newNotifications == FilterUnread(f.documents)
     IN /\ IF Len(newNotifications) > Baseline(f)
             THEN cue' \in PlayNotificationSound
             ELSE cue' = "none"
        /\ notifications' = SetState(notifications, newNotifications)
        /\ previousCount' = SetState(previousCount, NextCount(newNotifications))
  /\ refreshing' = SetState(refreshing, FALSE)
  /\ fetches' = fetches (-) One(f)
  /\ alert' = "none" /\ haptic' = "none"
  /\ UNCHANGED gestures
  /\ UNCHANGED <<remoteVars, mounted, userEmail, expoPushToken, soundVars, listener, reg,
                 lookup, marks, dialog, batches>>

\* Mutant of RefreshingAfterFailure: the flag is cleared on success only.
RefreshingKeptOnFailure == refreshing

\* The refresh flag after a failed fetch (finally, line 97).
RefreshingAfterFailure == SetState(refreshing, FALSE)

\* listDocuments rejected (before or after the store answered): catch, then finally.
FetchFail(f) ==
  /\ BagIn(f, fetches)
  /\ alert' = "Failed to fetch notifications"
  /\ refreshing' = RefreshingAfterFailure
  /\ fetches' = fetches (-) One(f)
  /\ cue' = "none" /\ haptic' = "none"
  /\ UNCHANGED gestures
  /\ UNCHANGED <<remoteVars, mounted, notifications, previousCount, userEmail,
                 expoPushToken, soundVars, listener, reg, lookup, marks, dialog, batches>>

\* onRefresh, of the current render.
OnRefresh ==
  /\ mounted = "mounted"
  /\ ~dialog.open
  /\ refreshing' = TRUE
  /\ IF userEmail # ""
       THEN /\ InFlight < MaxInFlight
            /\ fetches' = fetches (+) One(Request(userEmail, previousCount, "none", {}))
       ELSE fetches' = fetches
  /\ alert' = "none" /\ cue' = "none" /\ haptic' = "none"
  /\ Gesture
  /\ UNCHANGED <<remoteVars, mounted, notifications, previousCount, userEmail,
                 expoPushToken, soundVars, listener, reg, lookup, marks, dialog, batches>>

----------------------------------------------------------------------------
\* markAsRead.

\* Dismiss pressed on a displayed item: the success haptic, then updateDocument goes out.
\* The handler is the current render's, and so are the userEmail and the
\* fetchNotifications (with its previousCount) it will use after the await.
MarkAsRead(id) ==
  /\ mounted = "mounted"
  /\ ~dialog.open
  /\ id \in Ids(notifications)
  /\ InFlight < MaxInFlight
  /\ marks' = marks (+) One([id |-> id, email |-> userEmail, prev |-> previousCount])
  /\ haptic' = "success"
  /\ alert' = "none" /\ cue' = "none"
  /\ Gesture
  /\ UNCHANGED <<remoteVars, mounted, stateVars, soundVars, listener, reg, lookup, fetches,
                 dialog, batches>>

\* The request markAsRead sends once updateDocument resolved (line 120).
AfterUpdate(m) == Request(m.email, m.prev, "mark", {m.id})

\* updateDocument resolved: the record is read in the store; re-fetch.
UpdateOk(m) ==
  /\ BagIn(m, marks)
  /\ m.id \in Ids(store)
  /\ store' = UpdateDocument(store, m.id)
  /\ fetches' = fetches (+) One(AfterUpdate(m))
  /\ marks' = marks (-) One(m)
  /\ alert' = "none" /\ cue' = "none" /\ haptic' = "none"
  /\ UNCHANGED gestures
  /\ UNCHANGED <<created, mounted, stateVars, soundVars, listener, reg, lookup, dialog,
                 batches>>

\* updateDocument rejected (the network, or the document is gone).
UpdateFail(m) ==
  /\ BagIn(m, marks)
  /\ marks' = marks (-) One(m)
  /\ alert' = "Failed to mark as read"
  /\ cue' = "none" /\ haptic' = "none"
  /\ UNCHANGED gestures
  /\ UNCHANGED <<remoteVars, mounted, stateVars, soundVars, listener, reg, lookup, fetches,
                 dialog, batches>>

----------------------------------------------------------------------------
\* deleteAllNotifications.

\* The delete icon (rendered while the list is non-empty) pressed: the confirmation
\* alert opens; its Delete button holds an onPress of the current render.
DeleteAllPress ==
  /\ mounted = "mounted"
  /\ ~dialog.open
  /\ notifications # <<>>
  /\ dialog' = [open |-> TRUE, items |-> notifications, email |-> userEmail,
                prev |-> previousCount]
  /\ alert' = "none" /\ cue' = "none" /\ haptic' = "none"
  /\ Gesture
  /\ UNCHANGED <<remoteVars, mounted, stateVars, soundVars, listener, reg, lookup, fetches,
                 marks, batches>>

\* Cancel pressed.
DialogCancel ==
  /\ dialog.open
  /\ dialog' = NoDialog
  /\ alert' = "none" /\ cue' = "none" /\ haptic' = "none"
  /\ Gesture
  /\ UNCHANGED <<remoteVars, mounted, stateVars, soundVars, listener, reg, lookup, fetches,
                 marks, batches>>

\* The documents the confirmed handler deletes (line 154).
DeleteTargets == Ids(dialog.items)

\* Delete pressed: one deleteDocument per captured notification goes out, and the
\* handler awaits Promise.all.  shown records what the list displays at this moment.
DialogConfirm ==
  /\ dialog.open
  /\ InFlight < MaxInFlight
  /\ batches' = batches (+)
       One([targets |-> DeleteTargets, pending |-> DeleteTargets, failed |-> FALSE,
            email |-> dialog.email, prev |-> dialog.prev, shown |-> Ids(notifications)])
  /\ dialog' = NoDialog
  /\ alert' = "none" /\ cue' = "none" /\ haptic' = "none"
  /\ Gesture
  /\ UNCHANGED <<remoteVars, mounted, stateVars, soundVars, listener, reg, lookup, fetches,
                 marks>>

\* The batches once delete call id of batch b has settled.
Settle(b, id, failed) ==
  IF b.pending = {id}
    THEN batches (-) One(b)
    ELSE (batches (-) One(b)) (+) One([b EXCEPT !.pending = b.pending \ {id},
                                                !.failed = failed])

\* Mutant of AfterDelete: the re-fetch goes out when the last delete call resolved,
\* whether or not an earlier one rejected.
AfterDeleteAlways(b, id) ==
  IF b.pending = {id}
    THEN fetches (+) One(Request(b.email, b.prev, "delete", b.targets))
    ELSE fetches

\* What the handler of batch b does when its delete call id resolved: when that was
\* the last and none rejected, Promise.all resolves and the re-fetch goes out (line 159).
AfterDelete(b, id) ==
  IF b.pending = {id} /\ ~b.failed
    THEN fetches (+) One(Request(b.email, b.prev, "delete", b.targets))
    ELSE fetches

\* deleteDocument(id) of batch b resolved.
DeleteOk(b, id) ==
  /\ BagIn(b, batches)
  /\ id \in b.pending
  /\ id \in Ids(store)
  /\ store' = DeleteDocument(store, id)
  /\ batches' = Settle(b, id, b.failed)
  /\ fetches' = AfterDelete(b, id)
  /\ haptic' = IF b.pending = {id} /\ ~b.failed THEN "warning" ELSE "none"
  /\ alert' = "none" /\ cue' = "none"
  /\ UNCHANGED gestures
  /\ UNCHANGED <<created, mounted, stateVars, soundVars, listener, reg, lookup, marks,
                 dialog>>

\* deleteDocument(id) of batch b rejected.  The first rejection rejects Promise.all:
\* the catch shows the alert; the other delete calls stay in flight.
DeleteFail(b, id) ==
  /\ BagIn(b, batches)
  /\ id \in b.pending
  /\ batches' = Settle(b, id, TRUE)
  /\ alert' = IF b.failed THEN "none" ELSE "Failed to delete notifications"
  /\ cue' = "none" /\ haptic' = "none"
  /\ UNCHANGED gestures
  /\ UNCHANGED <<remoteVars, mounted, stateVars, soundVars, listener, reg, lookup, fetches,
                 marks, dialog>>

----------------------------------------------------------------------------
\* The screen's data: the store, the user lookup and what the user does.
NextScreen ==
  \/ \E e \in Emails, r \in BOOLEAN : Arrive(e, r)
  \/ Mount
  \/ Unmount
  \/ \E e \in Emails : LookupOk(e)
  \/ LookupFail
  \/ \E f \in BagToSet(fetches) : FetchServe(f)
  \/ \E f \in BagToSet(fetches) : FetchOk(f)
  \/ \E f \in BagToSet(fetches) : FetchFail(f)
  \/ OnRefresh
  \/ \E id \in 1..MaxDocs : MarkAsRead(id)
  \/ \E m \in BagToSet(marks) : UpdateOk(m)
  \/ \E m \in BagToSet(marks) : UpdateFail(m)
  \/ DeleteAllPress
  \/ DialogCancel
  \/ DialogConfirm
  \/ \E b \in BagToSet(batches) : \E id \in b.pending : DeleteOk(b, id)
  \/ \E b \in BagToSet(batches) : \E id \in b.pending : DeleteFail(b, id)

Spec == Init /\ [][NextScreen]_vars

\* The screen's lifetime: its effects, their cleanups and the calls they start,
\* with a user who does not touch the screen.
NextLifecycle ==
  \/ \E e \in Emails, r \in BOOLEAN : Arrive(e, r)
  \/ Mount
  \/ Unmount
  \/ LoadSoundDone
  \/ LoadSoundFail
  \/ \E s \in PermissionStatus : RegGetPermissions(s)
  \/ \E s \in PermissionStatus : RegRequestPermissions(s)
  \/ RegGetToken
  \/ RegReject
  \/ PushReceived
  \/ \E e \in Emails : LookupOk(e)
  \/ LookupFail
  \/ \E f \in BagToSet(fetches) : FetchServe(f)
  \/ \E f \in BagToSet(fetches) : FetchOk(f)
  \/ \E f \in BagToSet(fetches) : FetchFail(f)

SpecLifecycle == Init /\ [][NextLifecycle]_vars

----------------------------------------------------------------------------
\* Vocabulary of the properties.

Requests == BagToSet(fetches)

Screen == mounted = "mounted"

\* docs lists each of its documents once, newest first (ids are assigned in creation order)
NewestFirst(docs) == \A p, q \in 1..Len(docs) : p < q => docs[p].id > docs[q].id

IsReadInStore(id) == \E d \in Range(store) : d.id = id /\ d.isRead

----------------------------------------------------------------------------
\* C1: a successful fetch for an email displays exactly the unread records of the
\* response, in the response's order, and the response holds exactly the store's
\* records of that email, newest first: no read record, no record of another email
\* is displayed, and no unread record of the response is dropped.
C1_FetchShowsUnreadOfEmail ==
  [][\A f \in Requests :
       /\ FetchServe(f) =>
            \E g \in BagToSet(fetches') :
              /\ g.phase = "served" /\ g.email = f.email
              /\ Range(g.documents) = {d \in Range(store) : d.userEmail = f.email}
              /\ NewestFirst(g.documents)
       /\ (FetchOk(f) /\ Screen) =>
            /\ Range(notifications') = {d \in Range(f.documents) : ~d.isRead}
            /\ \A d \in Range(notifications') : d.userEmail = f.email /\ ~d.isRead
            /\ NewestFirst(notifications')
            /\ NewestFirst(f.documents)]_vars

\* C1 witness: the list shows some record while the store also holds a record that
\* must not be shown (read, or of another email), and no fetch is in flight.
C1_Witness ==
  /\ Screen /\ fetches = EmptyBag
  /\ notifications # <<>>
  /\ \E d \in Range(store) : d.isRead \/ d.userEmail # userEmail
  /\ \A d \in Range(notifications) : d \in Range(store)

\* C2: a successful fetch triggers the cue exactly when the unread count of its
\* response exceeds the count recorded by the last completed fetch (the
\* previousCount state at the time the response arrives), overlapping fetches included.
C2_CueIffCountGrew ==
  [][\A f \in Requests :
       (FetchOk(f) /\ Screen) =>
          ((cue' # "none") <=> (Len(FilterUnread(f.documents)) > previousCount))]_vars

\* C6: a failed fetch shows the alert, leaves the list and the baseline as they were,
\* fires no cue and clears the refresh flag; a successful fetch clears the flag too.
C6_FetchFailure ==
  [][\A f \in Requests :
       /\ FetchFail(f) =>
            /\ alert' = "Failed to fetch notifications"
            /\ notifications' = notifications
            /\ previousCount' = previousCount
            /\ cue' = "none"
            /\ Screen => ~refreshing'
       /\ (FetchOk(f) /\ Screen) => ~refreshing']_vars

\* C6 witness: a fetch has just failed on a screen that shows a list; the list is
\* still there and the refresh flag is off.
C6_Witness ==
  /\ Screen
  /\ alert = "Failed to fetch notifications"
  /\ notifications # <<>>
  /\ ~refreshing

\* C10: the baseline equals the length of the displayed list, and the list is
\* non-empty only if the user email is known.
C10_BaselineIsListLength ==
  /\ previousCount = Len(notifications)
  /\ notifications # <<>> => userEmail # ""

\* C10 witness: a list of two records is displayed, with baseline 2.
C10_Witness ==
  /\ Len(notifications) = 2
  /\ previousCount = 2

\* C3: once markAsRead has set a record's read flag in the store, the flag stays set,
\* the re-fetch goes out after the update, every response served from then on has the
\* record read (so outside its unread result), and when the re-fetch completes the
\* record is not in the displayed list.
C3_MarkedNotRefetched ==
  [][/\ \A m \in BagToSet(marks) :
          UpdateOk(m) =>
            /\ IsReadInStore(m.id)'
            /\ \E g \in BagToSet(fetches') :
                 /\ g.after = "mark" /\ g.gone = {m.id} /\ g.phase = "sent"
                 /\ CopiesIn(g, fetches') = CopiesIn(g, fetches) + 1
     /\ \A d \in Range(store) :
          d.isRead => \A e \in Range(store') : e.id = d.id => e.isRead
     /\ \A f \in Requests :
          /\ FetchServe(f) =>
               \A g \in BagToSet(fetches') : \A d \in Range(g.documents) :
                  (CopiesIn(g, fetches') > CopiesIn(g, fetches) /\ ~d.isRead) =>
                     ~IsReadInStore(d.id)
          /\ (FetchOk(f) /\ Screen /\ f.after = "mark") =>
               Ids(notifications') \cap f.gone = {}]_vars

\* C3 witness: the re-fetch of a mark-as-read has been served while the marked record,
\* now read in the store, is still displayed.
C3_Witness ==
  /\ Screen
  /\ \E f \in Requests :
       /\ f.after = "mark" /\ f.phase = "served"
       /\ \E id \in f.gone : id \in Ids(notifications) /\ IsReadInStore(id)

C8_LastResolvedWins ==
  [][\A f \in Requests :
       (/\ f.phase = "served"
        /\ CopiesIn(f, fetches') = CopiesIn(f, fetches) - 1
        /\ alert' # "Failed to fetch notifications"
        /\ Screen) =>
          /\ notifications' = SelectSeq(f.documents, LAMBDA d : ~d.isRead)
          /\ previousCount' = Len(notifications')]_vars

\* C8 witness: a response has just resolved successfully (it fired the cue), nothing
\* is in flight any more, so the re-fetch of the mark-as-read resolved before it, and
\* the list displays a record that is read in the store.
C8_Witness ==
  /\ Screen
  /\ fetches = EmptyBag /\ marks = EmptyBag /\ batches = EmptyBag
  /\ alert = "none" /\ cue # "none"
  /\ \E d \in Range(notifications) : IsReadInStore(d.id)

\* C5: after a mount followed by an unmount, in whichever order the sound load and
\* the unmount complete, the loaded sound has been unloaded exactly once and the
\* notification listener removed exactly once.
C5_ReleasedOnce ==
  (mounted = "unmounted" /\ soundLoad = "loaded") =>
     (unloads = 1 /\ listener = "removed")

\* C7: when push permission is not granted after the status check and the request, or
\* the app does not run on a device, registerForPushNotificationsAsync shows its alert
\* and returns null without asking for a token or throwing, the stored token stays
\* null, and the lookup, the fetches and the listener are as they would be anyway.
C7_DeniedPushIsHarmless ==
  /\ [][/\ (reg.pc = "requestPermissions" /\ reg'.pc \notin {reg.pc, "rejected"}
            /\ reg'.finalStatus # "granted") =>
              /\ alert' = "Enable notifications in settings."
              /\ reg'.pc = "done" /\ reg'.result = Null /\ ~reg'.tokenRequested
              /\ expoPushToken' = Null
              /\ UNCHANGED <<lookup, fetches, listener, notifications, userEmail,
                             refreshing, previousCount>>
        /\ (mounted = "init" /\ mounted' = "mounted" /\ ~reg.isDevice) =>
              /\ alert' = "Must use physical device for push notifications."
              /\ reg'.pc = "done" /\ reg'.result = Null /\ ~reg'.tokenRequested
              /\ expoPushToken' = Null
              /\ listener' = "active" /\ lookup' = "pending"
        /\ reg.result = Null => (reg' = reg /\ expoPushToken' = Null)]_vars
  /\ [](reg.result = Null =>
          /\ reg.pc = "done" /\ ~reg.tokenRequested /\ expoPushToken = Null
          /\ ~reg.isDevice \/ reg.finalStatus \in {"denied", "undetermined"}
          /\ lookup # "idle"
          /\ Screen => listener = "active")

\* C7 witness: permission was denied, and the screen has looked up its user, fetched
\* and displayed a list, with the listener registered.
C7_Witness ==
  /\ Screen
  /\ reg.isDevice /\ reg.pc = "done" /\ reg.finalStatus = "denied" /\ reg.result = Null
  /\ expoPushToken = Null
  /\ lookup = "ok" /\ notifications # <<>> /\ listener = "active"

----------------------------------------------------------------------------
\* Every call to the store or the account service eventually resolves or rejects.
Fairness ==
  /\ WF_vars(\E e \in Emails : LookupOk(e) \/ LookupFail)
  /\ WF_vars(\E f \in Requests : FetchServe(f))
  /\ WF_vars(\E f \in Requests : FetchOk(f) \/ FetchFail(f))
  /\ WF_vars(\E m \in BagToSet(marks) : UpdateOk(m) \/ UpdateFail(m))
  /\ WF_vars(\E b \in BagToSet(batches) : \E id \in b.pending :
                DeleteOk(b, id) \/ DeleteFail(b, id))

FairSpec == Spec /\ Fairness

\* C9: whenever the refresh flag is on, it eventually goes off again (or the screen
\* is unmounted), given that every issued network call eventually settles.
C9_RefreshEnds ==
  (Screen /\ refreshing) ~> (~refreshing \/ mounted = "unmounted")

====
